---- MODULE Spec2Model ----
(***************************************************************************)
(* Model of the resbadger index: the key codec (getKey, getQuery), the     *)
(* range query IndexQuery.FetchCollection over an ordered byte-key store,  *)
(* and the IndexSet listener registry (Listen, ListenIndex,                *)
(* triggerListeners).                                                      *)
(*                                                                         *)
(* Byte strings are sequences of numbers 0..255.  Go's zero-based slice    *)
(* k[a:b] is SubSeq(k, a+1, b).                                            *)
(***************************************************************************)
EXTENDS Integers, Sequences, FiniteSets

(***************************************************************************)
(* Program constants                                                        *)
(***************************************************************************)
\* const ridSeparator = byte(0)
ridSeparator == 0
\* b[offset] = ':'
colon == 58
\* const maxInt = int(^uint(0) >> 1), on a build with 32-bit int
maxInt == 2147483647

(***************************************************************************)
(* Bounds of the model                                                      *)
(***************************************************************************)
\* Largest number of keys held by the store.
MaxEntries == 3
\* Largest number of listeners registered with one IndexSet.
MaxListeners == 3

\* Index names of the queried store: "a", "ab".
IndexNames == {<<97>>, <<97, 98>>}
\* Index values returned by a Key callback: "b", "bb".
IndexValues == {<<98>>, <<98, 98>>}
\* Resource ids: "1", "2".
Rids == {<<49>>, <<50>>}
\* Keys written behind the index's back: "a:b" and "a:bb" (no separator),
\* and "a:b\x00\x001" (a value holding the reserved byte).
RawKeys == {<<97, 58, 98>>, <<97, 58, 98, 98>>, <<97, 58, 98, 0, 0, 49>>}
\* Query prefixes: "", "b", "b\x00", "b\x001".
KeyPrefixes == {<<>>, <<98>>, <<98, 0>>, <<98, 0, 49>>}
\* FilterKeys: nil, or a predicate on the raw index value.
NilFilter == "nil"
Filters == {NilFilter, "long"}
Offsets == {0, 1, 2}
Limits == {-1, 0, 1, 2}
\* Codec check: index names "a", "ab", "a:", values "", "b", ":b",
\* prefixes "", "b", ":".
CodecNames == {<<97>>, <<97, 98>>, <<97, 58>>}
CodecValues == {<<>>, <<98>>, <<58, 98>>}
CodecPrefixes == {<<>>, <<98>>, <<58>>}
\* Listener registry: callbacks, index names ("" is the name Listen
\* leaves unset), resources and domain values (nil: absent).
Callbacks == {"f", "g"}
ListenNames == {<<>>, <<97>>, <<97, 98>>}
Resources == {"r"}
DomainValues == {"nil", "u", "v"}

(***************************************************************************)
(* Byte-string helpers (package bytes)                                      *)
(***************************************************************************)
\* bytes.HasPrefix, as used by Iterator.ValidForPrefix
HasPrefix(k, p) ==
    /\ Len(p) <= Len(k)
    /\ \A i \in 1..Len(p) : k[i] = p[i]

\* bytes.LastIndexByte: zero-based position of the last c in k, or -1
LastIndexByte(k, c) ==
    LET at == {i \in 1..Len(k) : k[i] = c}
    IN  IF at = {} THEN -1
        ELSE (CHOOSE i \in at : \A j \in at : j <= i) - 1

\* bytes.Compare(a, b) < 0: the store's key order
BytesLess(a, b) ==
    \/ /\ Len(a) < Len(b)
       /\ \A i \in 1..Len(a) : a[i] = b[i]
    \/ \E i \in 1..(IF Len(a) < Len(b) THEN Len(a) ELSE Len(b)) :
          /\ a[i] < b[i]
          /\ \A j \in 1..(i - 1) : a[j] = b[j]

NoZero(s) == \A i \in 1..Len(s) : s[i] # ridSeparator
NoColon(s) == \A i \in 1..Len(s) : s[i] # colon

(***************************************************************************)
(* Key codec                                                                *)
(***************************************************************************)
\* A plausible slip: value and resource id written in the wrong order.
getKeySwapped(name, rname, value) ==
    name \o <<colon>> \o rname \o <<ridSeparator>> \o value

\* A plausible slip: the ':' after the name left out.
getKeyNoColon(name, rname, value) ==
    name \o value \o <<ridSeparator>> \o rname

\* func (idx Index) getKey(rname []byte, value []byte) []byte
getKey(name, rname, value) ==
    name \o <<colon>> \o value \o <<ridSeparator>> \o rname

\* func (idx Index) getQuery(keyPrefix []byte) []byte
getQuery(name, keyPrefix) ==
    name \o <<colon>> \o keyPrefix

(***************************************************************************)
(* The ordered key-value store's iterator (badger), as FetchCollection     *)
(* drives it: Seek, then Next while ValidForPrefix.                        *)
(***************************************************************************)
RECURSIVE Ascending(_)
\* The keys of S in the store's byte order.
Ascending(S) ==
    IF S = {} THEN <<>>
    ELSE LET m == CHOOSE k \in S : \A j \in S : j = k \/ BytesLess(k, j)
         IN  <<m>> \o Ascending(S \ {m})

RECURSIVE Descending(_)
Descending(S) ==
    IF S = {} THEN <<>>
    ELSE LET m == CHOOSE k \in S : \A j \in S : j = k \/ BytesLess(j, k)
         IN  <<m>> \o Descending(S \ {m})

\* it.Seek(key) followed by it.Next(): forward, from the smallest key
\* greater than or equal to key upwards; with opts.Reverse, from the
\* largest key less than or equal to key downwards.
IterKeys(db, key, reverse) ==
    IF reverse
    THEN Descending({k \in db : ~BytesLess(key, k)})
    ELSE Ascending({k \in db : ~BytesLess(k, key)})

(***************************************************************************)
(* IndexQuery.FetchCollection                                               *)
(***************************************************************************)
\* A FilterKeys callback applied to the raw index value.
ApplyFilter(f, v) == f = "long" /\ Len(v) >= 2

\* A plausible slip: the quick exit left out.
quickExitNever(limit) == FALSE

\* if limit == 0 { return nil, nil }
quickExit(limit) == limit = 0

\* A plausible slip: a key without separator is passed over.
invalidEntryNever(idx) == FALSE

\* if idx < 0 { return fmt.Errorf(...) }
invalidEntry(idx) == idx < 0

\* A plausible slip: the boundary check left out.
boundaryMissNever(qplen, idx) == FALSE

\* if qplen > idx { continue }
boundaryMiss(qplen, idx) == qplen > idx

\* A plausible slip: the filter sees the key up to its end, resource id
\* included.
filterPassWholeKey(filter, k, namelen, idx) ==
    filter = NilFilter \/ ApplyFilter(filter, SubSeq(k, namelen + 1, Len(k)))

\* if filter != nil { if !filter(k[namelen:idx]) { continue } }
filterPass(filter, k, namelen, idx) ==
    filter = NilFilter \/ ApplyFilter(filter, SubSeq(k, namelen + 1, idx))

\* A plausible slip: a skipped entry also uses up the limit.
skipOffsetCounted(st) == [st EXCEPT !.offset = @ - 1, !.limit = @ - 1]

\* if offset > 0 { offset--; continue }
skipOffset(st) == [st EXCEPT !.offset = @ - 1]

\* result = append(result, res.Ref(k[idx+1:])); limit--
addRef(st, k, idx) ==
    [st EXCEPT !.result = Append(@, SubSeq(k, idx + 2, Len(k))),
               !.hits = Append(@, k),
               !.limit = @ - 1]

RECURSIVE scan(_, _, _, _, _, _)
\* The loop body of the db.View callback over the keys ks from position i.
\* st holds the locals offset, limit and result, the returned error, and
\* two records of the run: the keys the body was entered with (visited) and
\* the key each reference was taken from (hits).
scan(ks, i, queryPrefix, namelen, filter, st) ==
    IF i > Len(ks) \/ ~HasPrefix(ks[i], queryPrefix) THEN st
    ELSE
      LET k   == ks[i]
          idx == LastIndexByte(k, ridSeparator)
          st1 == [st EXCEPT !.visited = Append(@, k)]
      IN  IF invalidEntry(idx) THEN [st1 EXCEPT !.err = TRUE]
          ELSE IF boundaryMiss(Len(queryPrefix), idx)
            THEN scan(ks, i + 1, queryPrefix, namelen, filter, st1)
          ELSE IF ~filterPass(filter, k, namelen, idx)
            THEN scan(ks, i + 1, queryPrefix, namelen, filter, st1)
          ELSE IF st1.offset > 0
            THEN scan(ks, i + 1, queryPrefix, namelen, filter, skipOffset(st1))
          ELSE LET st2 == addRef(st1, k, idx)
               IN  IF st2.limit = 0 THEN st2
                   ELSE scan(ks, i + 1, queryPrefix, namelen, filter, st2)

\* func (iq *IndexQuery) FetchCollection(db *badger.DB) ([]res.Ref, error)
\* The outcome holds the returned references (nil and empty are both <<>>),
\* whether an error was returned, and whether db.View was called (opened).
FetchCollection(db, iq) ==
    IF quickExit(iq.Limit)
    THEN [result |-> <<>>, err |-> FALSE, opened |-> FALSE,
          visited |-> <<>>, hits |-> <<>>]
    ELSE
      LET limit       == IF iq.Limit < 0 THEN maxInt ELSE iq.Limit
          queryPrefix == getQuery(iq.Index, iq.KeyPrefix)
          namelen     == Len(iq.Index) + 1
          st == scan(IterKeys(db, queryPrefix, iq.Reverse), 1, queryPrefix,
                     namelen, iq.FilterKeys,
                     [offset |-> iq.Offset, limit |-> limit, result |-> <<>>,
                      err |-> FALSE, visited |-> <<>>, hits |-> <<>>])
      IN  IF st.err
          THEN [result |-> <<>>, err |-> TRUE, opened |-> TRUE,
                visited |-> st.visited, hits |-> <<>>]
          ELSE [result |-> st.result, err |-> FALSE, opened |-> TRUE,
                visited |-> st.visited, hits |-> st.hits]

(***************************************************************************)
(* State                                                                    *)
(***************************************************************************)
VARIABLES
    db,         \* the store: the set of keys it holds
    entries,    \* the (name, value, rid) triples written through getKey
    call,       \* the last FetchCollection call: its query and outcome
    listeners,  \* IndexSet.listeners
    trig,       \* the last triggerListeners call and the callbacks it ran
    codec       \* the codec check: two triples, a prefix, their encodings

vars == <<db, entries, call, listeners, trig, codec>>

None == [none |-> TRUE]

Queries ==
    [Index : IndexNames, KeyPrefix : KeyPrefixes, FilterKeys : Filters,
     Offset : Offsets, Limit : Limits, Reverse : BOOLEAN]

(***************************************************************************)
(* The queried store                                                        *)
(***************************************************************************)
Init ==
    /\ db = {}
    /\ entries = {}
    /\ call = None
    /\ listeners = <<>>
    /\ trig = None
    /\ codec = None

\* The index maintainer inserts the entry of one (index, value, resource):
\* txn.Set(idx.getKey(rname, value), nil).
SetEntry(name, value, rid) ==
    /\ call = None
    /\ Cardinality(db) < MaxEntries
    /\ getKey(name, rid, value) \notin db
    /\ db' = db \cup {getKey(name, rid, value)}
    /\ entries' = entries \cup {[name |-> name, value |-> value, rid |-> rid]}
    /\ UNCHANGED <<call, listeners, trig, codec>>

\* A key reaches the store without passing through getKey.
PutRaw(k) ==
    /\ call = None
    /\ Cardinality(db) < MaxEntries
    /\ k \notin db
    /\ db' = db \cup {k}
    /\ UNCHANGED <<entries, call, listeners, trig, codec>>

\* One call of iq.FetchCollection(db), on the store as populated so far.
Fetch(iq) ==
    /\ call = None
    /\ call' = [iq |-> iq, out |-> FetchCollection(db, iq)]
    /\ UNCHANGED <<db, entries, listeners, trig, codec>>

Next ==
    \/ \E n \in IndexNames, v \in IndexValues, r \in Rids : SetEntry(n, v, r)
    \/ \E k \in RawKeys : PutRaw(k)
    \/ \E iq \in Queries : Fetch(iq)

Spec == Init /\ [][Next]_vars

(***************************************************************************)
(* Vocabulary of the query properties                                       *)
(***************************************************************************)
Called == call # None

Min(a, b) == IF a < b THEN a ELSE b

\* s[o:n], clamped to the length of s.
Slice(s, o, n) == SubSeq(s, o + 1, Min(n, Len(s)))

Rev(s) == [i \in 1..Len(s) |-> s[Len(s) + 1 - i]]

HasSep(k) == LastIndexByte(k, ridSeparator) >= 0

\* The key bytes between name + ':' and the last 0x00.
RawValue(name, k) == SubSeq(k, Len(name) + 2, LastIndexByte(k, ridSeparator))

\* The key bytes after the last 0x00.
RefOf(k) == SubSeq(k, LastIndexByte(k, ridSeparator) + 2, Len(k))

KeyOf(e) == getKey(e.name, e.rid, e.value)

\* The store holds the entries written through getKey and nothing else.
WellFormedStore == db = {KeyOf(e) : e \in entries}

\* (value, rid) order: byte order of the value, ties broken by the rid.
PairLess(e1, e2) ==
    \/ BytesLess(e1.value, e2.value)
    \/ e1.value = e2.value /\ BytesLess(e1.rid, e2.rid)

RECURSIVE RidsInPairOrder(_)
RidsInPairOrder(E) ==
    IF E = {} THEN <<>>
    ELSE LET m == CHOOSE e \in E : \A f \in E : f = e \/ PairLess(e, f)
         IN  <<m.rid>> \o RidsInPairOrder(E \ {m})

RECURSIVE KeepPassing(_, _, _)
\* The keys of ks whose raw index value passes the filter f, in order.
KeepPassing(ks, name, f) ==
    IF ks = <<>> THEN <<>>
    ELSE (IF ApplyFilter(f, RawValue(name, Head(ks))) THEN <<Head(ks)>> ELSE <<>>)
         \o KeepPassing(Tail(ks), name, f)

Refs(ks) == [i \in 1..Len(ks) |-> RefOf(ks[i])]

\* A key under the scan prefix whose last separator lies before the end of
\* the prefix.
Spurious(k, queryPrefix) ==
    /\ HasPrefix(k, queryPrefix)
    /\ HasSep(k)
    /\ LastIndexByte(k, ridSeparator) < Len(queryPrefix)

ZeroCount(k) == Cardinality({i \in 1..Len(k) : k[i] = ridSeparator})

Plain(iq) ==
    /\ iq.FilterKeys = NilFilter
    /\ iq.Offset = 0
    /\ iq.Limit = -1

(***************************************************************************)
(* C2: on a store of well-formed entries of one index, a query with        *)
(* Reverse = true, Limit = -1, Offset = 0 and no filter returns the exact  *)
(* reverse of what the same query returns with Reverse = false.            *)
(***************************************************************************)
C2_ReverseIsExactReverse ==
    (/\ Called
     /\ call.iq.Reverse
     /\ Plain(call.iq)
     /\ WellFormedStore
     /\ \A e \in entries : e.name = call.iq.Index)
    => /\ ~call.out.err
       /\ call.out.result =
            Rev(FetchCollection(db, [call.iq EXCEPT !.Reverse = FALSE]).result)

(***************************************************************************)
(* C3: on a store of well-formed entries (values without 0x00), a forward  *)
(* query with empty KeyPrefix, Limit = -1, Offset = 0 and no filter        *)
(* returns one reference per entry of its index, in the byte order of the  *)
(* index value, ties broken by the byte order of the resource id.          *)
(***************************************************************************)
C3_ForwardOrder ==
    (/\ Called
     /\ ~call.iq.Reverse
     /\ Plain(call.iq)
     /\ call.iq.KeyPrefix = <<>>
     /\ WellFormedStore
     /\ \A e \in entries : NoZero(e.value))
    => /\ ~call.out.err
       /\ call.out.result =
            RidsInPairOrder({e \in entries : e.name = call.iq.Index})

\* Two entries of the queried index whose value order is opposite to their
\* resource id order, and one of another index.
C3_Witness ==
    /\ Called
    /\ ~call.iq.Reverse
    /\ Plain(call.iq)
    /\ call.iq.KeyPrefix = <<>>
    /\ WellFormedStore
    /\ Cardinality(entries) = 3
    /\ call.out.result = << <<50>>, <<49>> >>

(***************************************************************************)
(* C4: pagination composes.  For Offset = o >= 0 and Limit = l >= 0 the    *)
(* references returned equal those of the same query with Offset = 0 and   *)
(* Limit = o + l, sliced from o to o + l; for l > 0 the two calls also      *)
(* agree on whether an error is returned.                                   *)
(***************************************************************************)
C4_PaginationComposes ==
    (Called /\ call.iq.Limit >= 0 /\ call.iq.Offset >= 0)
    => LET o    == call.iq.Offset
           l    == call.iq.Limit
           full == FetchCollection(db, [call.iq EXCEPT !.Offset = 0, !.Limit = o + l])
       IN  /\ call.out.result = Slice(full.result, o, o + l)
           /\ l > 0 => call.out.err = full.err

\* A page that starts after one entry and ends before the last one.
C4_Witness ==
    /\ Called
    /\ call.iq.Offset = 1
    /\ call.iq.Limit = 1
    /\ Len(call.out.result) = 1
    /\ Len(FetchCollection(db, [call.iq EXCEPT !.Offset = 0, !.Limit = -1]).result) = 3

(***************************************************************************)
(* C5 as stated: with Index, KeyPrefix, Offset, Limit and Reverse held     *)
(* equal, the call with FilterKeys = f returns the subsequence of the      *)
(* result of the call with FilterKeys = nil whose raw index values pass f. *)
(***************************************************************************)
C5_FilterIsSubsequence ==
    (Called /\ call.iq.FilterKeys # NilFilter)
    => LET base == FetchCollection(db, [call.iq EXCEPT !.FilterKeys = NilFilter])
       IN  call.out.result =
             Refs(KeepPassing(base.hits, call.iq.Index, call.iq.FilterKeys))

(***************************************************************************)
(* C5 amended: the same, for queries with Offset = 0 and a negative        *)
(* (unlimited) Limit; the two calls then also agree on the error.          *)
(***************************************************************************)
C5_FilterIsSubsequenceUnpaged ==
    (/\ Called
     /\ call.iq.FilterKeys # NilFilter
     /\ call.iq.Offset = 0
     /\ call.iq.Limit < 0)
    => LET base == FetchCollection(db, [call.iq EXCEPT !.FilterKeys = NilFilter])
       IN  /\ call.out.err = base.err
           /\ call.out.result =
                Refs(KeepPassing(base.hits, call.iq.Index, call.iq.FilterKeys))

\* The filter drops one of two entries and keeps the other.
C5_Witness ==
    /\ Called
    /\ call.iq.FilterKeys # NilFilter
    /\ call.iq.Offset = 0
    /\ call.iq.Limit < 0
    /\ Len(call.out.result) = 1
    /\ Len(FetchCollection(db, [call.iq EXCEPT !.FilterKeys = NilFilter]).result) = 2

(***************************************************************************)
(* C7: a key under the scan prefix without 0x00 that the iteration reaches *)
(* ends the call with an error and no result; it is the last key looked    *)
(* at, it is never passed over and never becomes a reference.  A forward   *)
(* query that reads to the end reaches every such key.                     *)
(***************************************************************************)
C7_CorruptionAborts ==
    Called =>
      LET out == call.out
          qp  == getQuery(call.iq.Index, call.iq.KeyPrefix)
      IN  /\ \A i \in 1..Len(out.visited) :
                ~HasSep(out.visited[i])
                => /\ out.err
                   /\ out.result = <<>>
                   /\ i = Len(out.visited)
          /\ out.err => /\ out.visited # <<>>
                        /\ ~HasSep(out.visited[Len(out.visited)])
          /\ \A j \in 1..Len(out.hits) : HasSep(out.hits[j])
          /\ (/\ ~call.iq.Reverse
              /\ call.iq.Limit < 0
              /\ \E k \in db : HasPrefix(k, qp) /\ ~HasSep(k))
             => out.err

\* A reference had been collected when the key without separator was met.
C7_Witness ==
    /\ Called
    /\ call.out.err
    /\ Plain(call.iq)
    /\ Len(call.out.visited) = 3
    /\ \A i \in 1..2 : /\ HasSep(call.out.visited[i])
                       /\ ~Spurious(call.out.visited[i],
                                    getQuery(call.iq.Index, call.iq.KeyPrefix))

(***************************************************************************)
(* C9: with Limit = 0 the call returns an empty result and no error and    *)
(* does not call db.View, whatever the other fields and the store hold.    *)
(***************************************************************************)
C9_ZeroLimitNoOp ==
    (Called /\ call.iq.Limit = 0)
    => /\ call.out.result = <<>>
       /\ ~call.out.err
       /\ ~call.out.opened
       /\ call.out.visited = <<>>

\* Limit = 0 on a store holding an entry and a key without separator, both
\* under the scan prefix.
C9_Witness ==
    /\ Called
    /\ call.iq.Limit = 0
    /\ \E k \in db : /\ HasPrefix(k, getQuery(call.iq.Index, call.iq.KeyPrefix))
                     /\ ~HasSep(k)
    /\ \E e \in entries :
          HasPrefix(KeyOf(e), getQuery(call.iq.Index, call.iq.KeyPrefix))

(***************************************************************************)
(* C10: a key whose last 0x00 lies before the end of the scan prefix is    *)
(* skipped without error and uses up neither Offset nor Limit: the call    *)
(* returns what it returns on the store without such keys.  A reference    *)
(* taken from the key of an entry (value and resource id without 0x00) is  *)
(* the resource id of an entry of the queried index whose value has        *)
(* KeyPrefix as a prefix, and a forward query that reads to the end        *)
(* returns every entry whose value equals KeyPrefix.                       *)
(***************************************************************************)
C10_BoundaryCheck ==
    Called =>
      LET iq  == call.iq
          out == call.out
          qp  == getQuery(iq.Index, iq.KeyPrefix)
          rest == FetchCollection({k \in db : ~Spurious(k, qp)}, iq)
      IN  /\ out.result = rest.result
          /\ out.err = rest.err
          /\ \A j \in 1..Len(out.hits) :
                /\ ~Spurious(out.hits[j], qp)
                /\ ZeroCount(out.hits[j]) = 1
                   => \E e \in entries :
                         /\ KeyOf(e) = out.hits[j]
                         /\ e.name = iq.Index
                         /\ HasPrefix(e.value, iq.KeyPrefix)
                         /\ out.result[j] = e.rid
          /\ (~iq.Reverse /\ Plain(iq) /\ ~out.err)
             => \A e \in entries :
                   (e.name = iq.Index /\ e.value = iq.KeyPrefix)
                   => \E j \in 1..Len(out.hits) : out.hits[j] = KeyOf(e)

\* Keys are skipped by the boundary check, and a key whose raw value equals
\* KeyPrefix is returned.
C10_Witness ==
    /\ Called
    /\ ~call.out.err
    /\ \E i \in 1..Len(call.out.visited) :
          Spurious(call.out.visited[i], getQuery(call.iq.Index, call.iq.KeyPrefix))
    /\ \E j \in 1..Len(call.out.hits) :
          RawValue(call.iq.Index, call.out.hits[j]) = call.iq.KeyPrefix

(***************************************************************************)
(* IndexSet listener registry                                               *)
(***************************************************************************)
\* A plausible slip: every listener is called, whatever its name.
listenerMatchesAll(il, name) == TRUE

\* if il.name == name
listenerMatches(il, name) == il.name = name

RECURSIVE runListeners(_, _, _, _, _, _)
\* for _, il := range i.listeners { ... il.cb(r, before, after) }
\* from position i on; each call is recorded with the position of its
\* listener.
runListeners(ls, i, name, r, before, after) ==
    IF i > Len(ls) THEN <<>>
    ELSE (IF listenerMatches(ls[i], name)
          THEN << [lid |-> i, cb |-> ls[i].cb, r |-> r,
                   before |-> before, after |-> after] >>
          ELSE <<>>)
         \o runListeners(ls, i + 1, name, r, before, after)

\* func (i *IndexSet) triggerListeners(name, r, before, after): the
\* callbacks it runs, in order.
triggerListeners(ls, name, r, before, after) ==
    runListeners(ls, 1, name, r, before, after)

\* func (i *IndexSet) Listen(cb)
Listen(cb) ==
    /\ Len(listeners) < MaxListeners
    /\ listeners' = Append(listeners, [cb |-> cb, name |-> <<>>])
    /\ UNCHANGED <<db, entries, call, trig, codec>>

\* func (i *IndexSet) ListenIndex(name, cb)
ListenIndex(name, cb) ==
    /\ Len(listeners) < MaxListeners
    /\ listeners' = Append(listeners, [cb |-> cb, name |-> name])
    /\ UNCHANGED <<db, entries, call, trig, codec>>

\* One call of i.triggerListeners(name, r, before, after).
TriggerListeners(name, r, before, after) ==
    /\ trig' = [name |-> name, r |-> r, before |-> before, after |-> after,
                n |-> Len(listeners),
                calls |-> triggerListeners(listeners, name, r, before, after)]
    /\ UNCHANGED <<db, entries, call, listeners, codec>>

NextListen ==
    \/ \E cb \in Callbacks : Listen(cb)
    \/ \E n \in ListenNames, cb \in Callbacks : ListenIndex(n, cb)
    \/ \E n \in ListenNames, r \in Resources, b \in DomainValues, a \in DomainValues :
          TriggerListeners(n, r, b, a)

SpecListen == Init /\ [][NextListen]_vars

Triggered == trig # None

\* The calls of the last dispatch made to the listener at position i.
CallsOf(i) == {j \in 1..Len(trig.calls) : trig.calls[j].lid = i}

(***************************************************************************)
(* C1: a listener registered with Listen is invoked exactly once by every  *)
(* triggerListeners call, whatever index name the call carries, with the   *)
(* call's before and after values.                                         *)
(***************************************************************************)
C1_WildcardInvokedOnce ==
    Triggered =>
      \A i \in 1..trig.n :
         listeners[i].name = <<>>
         => /\ Cardinality(CallsOf(i)) = 1
            /\ \A j \in CallsOf(i) :
                  /\ trig.calls[j].before = trig.before
                  /\ trig.calls[j].after = trig.after

(***************************************************************************)
(* C8: a listener registered with ListenIndex(n, cb) is invoked by a       *)
(* dispatch for index name m if and only if m = n, at most once; the       *)
(* listeners invoked by one dispatch run in registration order, each with  *)
(* the dispatch's resource, before and after values.                       *)
(***************************************************************************)
C8_ScopedListeners ==
    Triggered =>
      /\ \A i \in 1..trig.n :
            /\ (CallsOf(i) # {}) <=> (listeners[i].name = trig.name)
            /\ Cardinality(CallsOf(i)) <= 1
      /\ \A j \in 1..Len(trig.calls) :
            /\ trig.calls[j].lid \in 1..trig.n
            /\ trig.calls[j].cb = listeners[trig.calls[j].lid].cb
            /\ trig.calls[j].r = trig.r
            /\ trig.calls[j].before = trig.before
            /\ trig.calls[j].after = trig.after
      /\ \A j, k \in 1..Len(trig.calls) :
            j < k => trig.calls[j].lid < trig.calls[k].lid

\* A dispatch for a named index that runs two of three listeners.
C8_Witness ==
    /\ Triggered
    /\ trig.n = 3
    /\ trig.name # <<>>
    /\ Len(trig.calls) = 2
    /\ trig.before # trig.after

(***************************************************************************)
(* Key codec check: two triples and a prefix are drawn, the first triple's *)
(* entry is written to an empty store, and the second triple's index is    *)
(* queried for the prefix.                                                  *)
(***************************************************************************)
Triples == [name : CodecNames, value : CodecValues, rid : Rids]

InitKey ==
    /\ db = {}
    /\ entries = {}
    /\ call = None
    /\ listeners = <<>>
    /\ trig = None
    /\ codec \in [t1 : Triples, t2 : Triples, kp : CodecPrefixes,
                  k1 : {<<>>}, k2 : {<<>>}, done : {FALSE}]

\* getKey on both triples; the first one's key is stored.
Encode ==
    /\ ~codec.done
    /\ codec' = [codec EXCEPT !.k1 = KeyOf(codec.t1),
                              !.k2 = KeyOf(codec.t2),
                              !.done = TRUE]
    /\ db' = {KeyOf(codec.t1)}
    /\ entries' = {codec.t1}
    /\ UNCHANGED <<call, listeners, trig>>

\* A forward, unlimited, unfiltered query on the second triple's index.
Lookup ==
    /\ codec.done
    /\ call = None
    /\ LET iq == [Index |-> codec.t2.name, KeyPrefix |-> codec.kp,
                  FilterKeys |-> NilFilter, Offset |-> 0, Limit |-> -1,
                  Reverse |-> FALSE]
       IN  call' = [iq |-> iq, out |-> FetchCollection(db, iq)]
    /\ UNCHANGED <<db, entries, listeners, trig, codec>>

NextKey == Encode \/ Lookup

SpecKey == InitKey /\ [][NextKey]_vars

(***************************************************************************)
(* C6 as stated: for two triples whose names and values hold no 0x00,      *)
(* getKey returns the same key only if the triples are equal, and an entry *)
(* written for one index is not returned by a query on another index.      *)
(***************************************************************************)
C6_CollisionFree ==
    (/\ codec.done
     /\ NoZero(codec.t1.name) /\ NoZero(codec.t1.value)
     /\ NoZero(codec.t2.name) /\ NoZero(codec.t2.value))
    => /\ codec.k1 = codec.k2 => codec.t1 = codec.t2
       /\ (Called /\ codec.t1.name # codec.t2.name) => call.out.result = <<>>

(***************************************************************************)
(* C6 amended: the same, for index names that hold neither 0x00 nor ':'.   *)
(***************************************************************************)
C6_CollisionFreeNoColon ==
    (/\ codec.done
     /\ NoZero(codec.t1.name) /\ NoZero(codec.t1.value) /\ NoColon(codec.t1.name)
     /\ NoZero(codec.t2.name) /\ NoZero(codec.t2.value) /\ NoColon(codec.t2.name))
    => /\ codec.k1 = codec.k2 => codec.t1 = codec.t2
       /\ (Called /\ codec.t1.name # codec.t2.name) => call.out.result = <<>>

\* An entry of index "a" with value "b", and a query on index "ab" that
\* finds nothing although index "a" holds a match for the same prefix.
C6_Witness ==
    /\ codec.done
    /\ Called
    /\ NoColon(codec.t1.name) /\ NoColon(codec.t2.name)
    /\ codec.t1.name # codec.t2.name
    /\ HasPrefix(codec.t2.name, codec.t1.name)
    /\ codec.t1.value # <<>>
    /\ HasPrefix(codec.t1.value, codec.kp)
    /\ codec.k1 # codec.k2
    /\ call.out.result = <<>>
    /\ FetchCollection(db, [call.iq EXCEPT !.Index = codec.t1.name]).result
         = <<codec.t1.rid>>

====
